---- MODULE Spec2Model ----
(***************************************************************************)
(* Model of app.py: the CBC value extractor (parse_cbc_values), the        *)
(* sample quality assessor (assess_sample_quality) and the rule evaluator  *)
(* (analyze_values), together with the script that drives them.            *)
(*                                                                         *)
(* Numbers.  Every measured value and every bound of NORMAL_RANGES is      *)
(* held in tenths of its unit (13.5 g/dL is 135), so that the decimal      *)
(* literals of the source are integers here.  sample_age_hours is held in  *)
(* whole hours.  The thresholds 1 and 3 of the Rule of Threes are 10 and   *)
(* 30 on this scale.                                                       *)
(*                                                                         *)
(* Dictionaries.  A Python dict is a sequence of [param, val] entries with *)
(* distinct params, in insertion order (the order .items() iterates).      *)
(*                                                                         *)
(* Text.  A report text is a sequence of lines; a line is a label word     *)
(* followed by separators and then either a run of digit/period            *)
(* characters (tok, a sequence of characters) or nothing (tok = <<>>).     *)
(***************************************************************************)
EXTENDS Integers, Sequences, FiniteSets, TLC

VARIABLES pc, option, sample_age_hours, storage_temp, text, values,
          quality_issues, analysis, err

vars == <<pc, option, sample_age_hours, storage_temp, text, values,
          quality_issues, analysis, err>>

---------------------------------------------------------------------------
(* Bounds of the model *)

\* lines in an uploaded text
MaxLines == 2

\* entries in a dictionary handed directly to the functions
MaxPresent == 2

\* fields of the manual form the user changes from the default 0.0
MaxEdited == 1

---------------------------------------------------------------------------
(* NORMAL_RANGES *)

NORMAL_RANGES ==
  [ RBC           |-> [min |-> 45,   max |-> 59,   unit |-> "x10^12/L", desc |-> "Red Blood Cell Count"],
    Hemoglobin    |-> [min |-> 135,  max |-> 175,  unit |-> "g/dL",     desc |-> "Hemoglobin (Hb)"],
    Hematocrit    |-> [min |-> 410,  max |-> 530,  unit |-> "%",        desc |-> "Hematocrit (HCT)"],
    MCV           |-> [min |-> 800,  max |-> 1000, unit |-> "fL",       desc |-> "Mean Corpuscular Volume"],
    MCH           |-> [min |-> 270,  max |-> 310,  unit |-> "pg",       desc |-> "Mean Corpuscular Hemoglobin"],
    MCHC          |-> [min |-> 320,  max |-> 360,  unit |-> "g/dL",     desc |-> "Mean Corpuscular Hemoglobin Concentration"],
    RDW           |-> [min |-> 115,  max |-> 145,  unit |-> "%",        desc |-> "Red Cell Distribution Width"],
    WBC           |-> [min |-> 45,   max |-> 110,  unit |-> "x10^9/L",  desc |-> "White Blood Cell Count"],
    Neutrophils   |-> [min |-> 18,   max |-> 77,   unit |-> "x10^9/L",  desc |-> "Neutrophils (Absolute)"],
    Lymphocytes   |-> [min |-> 10,   max |-> 48,   unit |-> "x10^9/L",  desc |-> "Lymphocytes (Absolute)"],
    Monocytes     |-> [min |-> 2,    max |-> 10,   unit |-> "x10^9/L",  desc |-> "Monocytes (Absolute)"],
    Eosinophils   |-> [min |-> 0,    max |-> 5,    unit |-> "x10^9/L",  desc |-> "Eosinophils (Absolute)"],
    Basophils     |-> [min |-> 0,    max |-> 2,    unit |-> "x10^9/L",  desc |-> "Basophils (Absolute)"],
    Platelets     |-> [min |-> 1500, max |-> 4500, unit |-> "x10^9/L",  desc |-> "Platelet Count"],
    MPV           |-> [min |-> 74,   max |-> 104,  unit |-> "fL",       desc |-> "Mean Platelet Volume"],
    Reticulocytes |-> [min |-> 5,    max |-> 15,   unit |-> "%",        desc |-> "Reticulocyte Count"] ]

\* the keys of NORMAL_RANGES in definition order (the order a for loop over
\* the dict visits them)
Params ==
  << "RBC", "Hemoglobin", "Hematocrit", "MCV", "MCH", "MCHC", "RDW", "WBC",
     "Neutrophils", "Lymphocytes", "Monocytes", "Eosinophils", "Basophils",
     "Platelets", "MPV", "Reticulocytes" >>

ParamSet == { Params[i] : i \in DOMAIN Params }

---------------------------------------------------------------------------
(* dict operations *)

\* 'param in values'
Has(vals, p) == \E i \in DOMAIN vals : vals[i].param = p

\* values[param]
Get(vals, p) == vals[CHOOSE i \in DOMAIN vals : vals[i].param = p].val

---------------------------------------------------------------------------
(* analyze_values *)

\* Status with '<=' for '<' in the first comparison
StatusLowAtMin(param, val) ==
  IF val <= NORMAL_RANGES[param].min THEN "Low"
  ELSE IF val > NORMAL_RANGES[param].max THEN "High"
  ELSE "Normal"

\* the Low / High / Normal branch of the per-parameter loop
Status(param, val) ==
  IF val < NORMAL_RANGES[param].min THEN "Low"
  ELSE IF val > NORMAL_RANGES[param].max THEN "High"
  ELSE "Normal"

\* the suggestion chosen in the same branch; an f-string is the sequence of
\* its pieces
Suggestion(param, val) ==
  IF val < NORMAL_RANGES[param].min THEN
       IF param = "RBC" THEN
         <<"Possible anemia. Evaluate with MCV classification (microcytic, normocytic, macrocytic). Refer to 'Diagnostic approach to anemia in adults' or 'Approach to the child with anemia'. Consider reticulocyte count for production vs. loss/destruction.">>
       ELSE IF param = "Platelets" THEN
         <<"Thrombocytopenia. Refer to 'Approach to the child with unexplained thrombocytopenia' or 'Diagnostic approach to thrombocytopenia in adults'.">>
       ELSE IF param = "WBC" THEN
         <<"Neutropenia or lymphopenia possible. Refer to 'Evaluation of neutropenia in children and adolescents' or 'Approach to the adult with unexplained neutropenia'. If low lymphocytes, consider primary immunodeficiency disorders (PID): Check absolute lymphocyte count (ALC); low ALC suggests T-cell disorder.">>
       ELSE IF param = "Neutrophils" THEN
         <<"Neutropenia: Increased infection risk. Evaluate for phagocytic disorders or PID. Series of CBCs needed for confirmation.">>
       ELSE IF param = "Lymphocytes" THEN
         <<"Lymphopenia: Possible T-cell deficiency. In PID, low ALC on CBC prompts further immunoglobulin and complement testing.">>
       ELSE <<"Low ", param, ". Investigate further.">>
  ELSE IF val > NORMAL_RANGES[param].max THEN
       IF param = "RBC" THEN
         <<"Erythrocytosis/polycythemia. Refer to 'Diagnostic approach to the patient with erythrocytosis/polycythemia'.">>
       ELSE IF param = "Platelets" THEN
         <<"Thrombocytosis. Refer to 'Approach to the patient with thrombocytosis'.">>
       ELSE IF param = "WBC" THEN
         <<"Neutrophilia or leukocytosis. Refer to 'Approach to the patient with neutrophilia'. Check for infection, inflammation, or malignancy. Review peripheral smear for left shift.">>
       ELSE IF param = "Neutrophils" THEN
         <<"Neutrophilia (>7.7 x10^9/L). Evaluate CBC with differential and smear. Causes: Infection, stress, malignancy. If persistent, consider bone marrow biopsy.">>
       ELSE <<"High ", param, ". Investigate further.">>
  ELSE <<"Within normal range.">>

\* the record appended for one entry of values
ParamFinding(param, val) ==
  [ Parameter  |-> NORMAL_RANGES[param].desc,
    Value      |-> val,
    Unit       |-> NORMAL_RANGES[param].unit,
    Status     |-> Status(param, val),
    Suggestion |-> Suggestion(param, val) ]

\* for param, val in values.items(): if param in NORMAL_RANGES: ... append
RECURSIVE PerParameter(_)
PerParameter(vals) ==
  IF vals = <<>> THEN <<>>
  ELSE LET e == Head(vals)
       IN  (IF e.param \in DOMAIN NORMAL_RANGES
              THEN <<ParamFinding(e.param, e.val)>>
              ELSE <<>>)
           \o PerParameter(Tail(vals))

\* abs()
Abs(x) == IF x < 0 THEN -x ELSE x

\* RuleOfThreesViolated with 'or' for 'and'
RuleOfThreesBothOff(rbc, hb, hct) ==
  ~ (Abs(3 * rbc - hb) < 10 \/ Abs(3 * hb - hct) < 30)

\* not (abs(3 * rbc - hb) < 1 and abs(3 * hb - hct) < 3)
RuleOfThreesViolated(rbc, hb, hct) ==
  ~ (Abs(3 * rbc - hb) < 10 /\ Abs(3 * hb - hct) < 30)

\* the Rule of Threes block
RuleOfThrees(vals) ==
  IF Has(vals, "RBC") /\ Has(vals, "Hemoglobin") /\ Has(vals, "Hematocrit")
    THEN IF RuleOfThreesViolated(Get(vals, "RBC"), Get(vals, "Hemoglobin"),
                                 Get(vals, "Hematocrit"))
           THEN << [ Parameter  |-> "Rule of Threes",
                     Value      |-> "Violated",
                     Unit       |-> "",
                     Status     |-> "Abnormal",
                     Suggestion |-> <<"Results may be spurious or indicate a true hematologic condition. Recommend blood smear evaluation.">> ] >>
           ELSE <<>>
    ELSE <<>>

\* AnemiaCondition with '<=' for '<'
AnemiaAtMin(vals) ==
  Has(vals, "Hemoglobin")
  /\ Get(vals, "Hemoglobin") <= NORMAL_RANGES["Hemoglobin"].min

\* the guard of the anemia block
AnemiaCondition(vals) ==
  Has(vals, "Hemoglobin")
  /\ Get(vals, "Hemoglobin") < NORMAL_RANGES["Hemoglobin"].min

\* AnemiaType with '<=' for '<' in the microcytic comparison
AnemiaTypeMicroAt80(vals) ==
  IF Has(vals, "MCV")
    THEN IF Get(vals, "MCV") <= 800
           THEN "Microcytic: Possible iron deficiency or thalassemia."
         ELSE IF Get(vals, "MCV") > 1000
           THEN "Macrocytic: Possible B12/folate deficiency."
         ELSE "Normocytic: Possible chronic disease or hemolysis."
    ELSE ""

\* anemia_type
AnemiaType(vals) ==
  IF Has(vals, "MCV")
    THEN IF Get(vals, "MCV") < 800
           THEN "Microcytic: Possible iron deficiency or thalassemia."
         ELSE IF Get(vals, "MCV") > 1000
           THEN "Macrocytic: Possible B12/folate deficiency."
         ELSE "Normocytic: Possible chronic disease or hemolysis."
    ELSE ""

\* the anemia block
AnemiaEvaluation(vals) ==
  IF AnemiaCondition(vals)
    THEN << [ Parameter  |-> "Anemia Evaluation",
              Value      |-> "",
              Unit       |-> "",
              Status     |-> "Abnormal",
              Suggestion |-> << "Low Hb indicates anemia. ", AnemiaType(vals),
                                " Use reticulocyte count to assess production. Peripheral smear for morphology." >> ] >>
    ELSE <<>>

\* the guard of the PID block
PIDCondition(vals) ==
  Has(vals, "Lymphocytes")
  /\ Get(vals, "Lymphocytes") < NORMAL_RANGES["Lymphocytes"].min

\* the PID block
PossiblePID(vals) ==
  IF PIDCondition(vals)
    THEN << [ Parameter  |-> "Possible PID",
              Value      |-> "",
              Unit       |-> "",
              Status     |-> "Abnormal",
              Suggestion |-> <<"Low lymphocytes: Consider primary immunodeficiency. Initial tests: CBC with ALC, immunoglobulins, complement. If low ALC, evaluate T-cell function.">> ] >>
    ELSE <<>>

analyze_values(vals) ==
  PerParameter(vals) \o RuleOfThrees(vals) \o AnemiaEvaluation(vals)
    \o PossiblePID(vals)

---------------------------------------------------------------------------
(* assess_sample_quality *)

\* if cond: quality_issues.append(msg)
AppendIf(cond, msg) == IF cond THEN <<msg>> ELSE <<>>

\* assess_sample_quality with 'elif' for the second 'if': the storage checks
\* are skipped for an old sample
assess_sample_quality_elif(vals, age, storage) ==
  IF age > 72
    THEN AppendIf(TRUE,
           "Sample >72 hours old: May show spurious elevated MCV and MPV due to cell swelling.")
         \o AppendIf(Has(vals, "MCV") /\ Get(vals, "MCV") > 1000,
           "Elevated MCV may indicate old sample or macrocytosis.")
         \o AppendIf(Has(vals, "MPV") /\ Get(vals, "MPV") > NORMAL_RANGES["MPV"].max,
           "Elevated MPV suggests prolonged EDTA exposure.")
         \o AppendIf(Has(vals, "Hemoglobin") /\ Has(vals, "RBC")
                /\ Get(vals, "Hemoglobin") < NORMAL_RANGES["Hemoglobin"].min
                /\ Get(vals, "RBC") < NORMAL_RANGES["RBC"].min,
           "Possible hemolysis: Low Hb and RBC due to shearing during collection.")
    ELSE AppendIf(storage = "Frozen",
           "Freezing causes cell lysis, leading to inaccurate counts.")
         \o AppendIf(storage = "Heated",
           "Heat exposure causes RBC fragmentation, mimicking burn victim samples.")
         \o AppendIf(Has(vals, "MCV") /\ Get(vals, "MCV") > 1000,
           "Elevated MCV may indicate old sample or macrocytosis.")
         \o AppendIf(Has(vals, "MPV") /\ Get(vals, "MPV") > NORMAL_RANGES["MPV"].max,
           "Elevated MPV suggests prolonged EDTA exposure.")
         \o AppendIf(Has(vals, "Hemoglobin") /\ Has(vals, "RBC")
                /\ Get(vals, "Hemoglobin") < NORMAL_RANGES["Hemoglobin"].min
                /\ Get(vals, "RBC") < NORMAL_RANGES["RBC"].min,
           "Possible hemolysis: Low Hb and RBC due to shearing during collection.")

assess_sample_quality(vals, age, storage) ==
  AppendIf(age > 72,
           "Sample >72 hours old: May show spurious elevated MCV and MPV due to cell swelling.")
  \o AppendIf(storage = "Frozen",
           "Freezing causes cell lysis, leading to inaccurate counts.")
  \o AppendIf(storage = "Heated",
           "Heat exposure causes RBC fragmentation, mimicking burn victim samples.")
  \o AppendIf(Has(vals, "MCV") /\ Get(vals, "MCV") > 1000,
           "Elevated MCV may indicate old sample or macrocytosis.")
  \o AppendIf(Has(vals, "MPV") /\ "MPV" \in DOMAIN NORMAL_RANGES
                /\ Get(vals, "MPV") > NORMAL_RANGES["MPV"].max,
           "Elevated MPV suggests prolonged EDTA exposure.")
  \o AppendIf(Has(vals, "Hemoglobin") /\ Has(vals, "RBC")
                /\ Get(vals, "Hemoglobin") < NORMAL_RANGES["Hemoglobin"].min
                /\ Get(vals, "RBC") < NORMAL_RANGES["RBC"].min,
           "Possible hemolysis: Low Hb and RBC due to shearing during collection.")

---------------------------------------------------------------------------
(* parse_cbc_values *)

\* The regular expressions, as the regex engine reads them.  '|' binds
\* loosest, so r'Hemoglobin|Hb[\s:]*([\d\.]+)' is two alternatives: the bare
\* word Hemoglobin (no group), or Hb, separators and the captured group.
\* An alternative is [word, capture]: capture says whether [\s:]*([\d\.]+)
\* belongs to it.
patterns ==
  [ RBC           |-> << [word |-> "RBC", capture |-> TRUE] >>,
    Hemoglobin    |-> << [word |-> "Hemoglobin", capture |-> FALSE],
                         [word |-> "Hb", capture |-> TRUE] >>,
    Hematocrit    |-> << [word |-> "Hematocrit", capture |-> FALSE],
                         [word |-> "HCT", capture |-> TRUE] >>,
    MCV           |-> << [word |-> "MCV", capture |-> TRUE] >>,
    MCH           |-> << [word |-> "MCH", capture |-> TRUE] >>,
    MCHC          |-> << [word |-> "MCHC", capture |-> TRUE] >>,
    RDW           |-> << [word |-> "RDW", capture |-> TRUE] >>,
    WBC           |-> << [word |-> "WBC", capture |-> TRUE] >>,
    Neutrophils   |-> << [word |-> "Neutrophils", capture |-> FALSE],
                         [word |-> "NEU", capture |-> TRUE] >>,
    Lymphocytes   |-> << [word |-> "Lymphocytes", capture |-> FALSE],
                         [word |-> "LYM", capture |-> TRUE] >>,
    Monocytes     |-> << [word |-> "Monocytes", capture |-> FALSE],
                         [word |-> "MON", capture |-> TRUE] >>,
    Eosinophils   |-> << [word |-> "Eosinophils", capture |-> FALSE],
                         [word |-> "EOS", capture |-> TRUE] >>,
    Basophils     |-> << [word |-> "Basophils", capture |-> FALSE],
                         [word |-> "BAS", capture |-> TRUE] >>,
    Platelets     |-> << [word |-> "Platelets", capture |-> FALSE],
                         [word |-> "PLT", capture |-> TRUE] >>,
    MPV           |-> << [word |-> "MPV", capture |-> TRUE] >>,
    Reticulocytes |-> << [word |-> "Reticulocytes", capture |-> FALSE],
                         [word |-> "RET", capture |-> TRUE] >> ]

\* one alternative matches at a line: the word is the line's label and, when
\* the alternative captures, ([\d\.]+) finds at least one character
AltMatches(alt, line) ==
  alt.word = line.label /\ (alt.capture => line.tok # <<>>)

\* re.search(pattern, text): the leftmost line where some alternative
\* matches and, there, the first alternative that does.  0 when there is no
\* match; otherwise [line, alt].
Search(alts, t) ==
  IF \E i \in DOMAIN t : \E a \in DOMAIN alts : AltMatches(alts[a], t[i])
    THEN LET i == CHOOSE k \in DOMAIN t :
                    /\ \E a \in DOMAIN alts : AltMatches(alts[a], t[k])
                    /\ \A j \in 1..(k - 1) :
                         ~ \E a \in DOMAIN alts : AltMatches(alts[a], t[j])
             a == CHOOSE b \in DOMAIN alts :
                    /\ AltMatches(alts[b], t[i])
                    /\ \A c \in 1..(b - 1) : ~ AltMatches(alts[c], t[i])
         IN  [line |-> i, alt |-> a]
    ELSE [line |-> 0, alt |-> 0]

Digits == {"0", "1", "2", "3", "4", "5", "6", "7", "8", "9"}

DigitVal(c) ==
  CASE c = "0" -> 0 [] c = "1" -> 1 [] c = "2" -> 2 [] c = "3" -> 3
    [] c = "4" -> 4 [] c = "5" -> 5 [] c = "6" -> 6 [] c = "7" -> 7
    [] c = "8" -> 8 [] c = "9" -> 9

\* float(s) returns, for a run s of digits and periods, exactly when s has at
\* most one period and at least one digit; otherwise it raises ValueError
FloatOk(s) ==
  /\ Cardinality({i \in DOMAIN s : s[i] = "."}) <= 1
  /\ \E i \in DOMAIN s : s[i] \in Digits

RECURSIVE IntOf(_)
IntOf(s) ==
  IF s = <<>> THEN 0
  ELSE IntOf(SubSeq(s, 1, Len(s) - 1)) * 10 + DigitVal(s[Len(s)])

\* the value of float(s), in tenths; digits after the first fractional digit
\* are below the resolution of the model
Float(s) ==
  LET d == IF \E i \in DOMAIN s : s[i] = "."
             THEN CHOOSE i \in DOMAIN s : s[i] = "."
             ELSE Len(s) + 1
  IN  IntOf(SubSeq(s, 1, d - 1)) * 10
        + (IF d + 1 <= Len(s) THEN DigitVal(s[d + 1]) ELSE 0)

\* the loop over patterns.items(), from the k-th pattern on, with the dict
\* built so far.  match.group(1) of an alternative without a group is None,
\* and float(None) raises TypeError, which 'except ValueError' does not
\* catch: the call ends there and returns nothing.
RECURSIVE ParseFrom(_, _, _)
ParseFrom(k, acc, t) ==
  IF k > Len(Params) THEN [values |-> acc, err |-> "none"]
  ELSE LET key == Params[k]
           m   == Search(patterns[key], t)
       IN  IF m.line = 0 THEN ParseFrom(k + 1, acc, t)
           ELSE IF ~ patterns[key][m.alt].capture
             THEN [values |-> <<>>, err |-> "TypeError"]
           ELSE IF FloatOk(t[m.line].tok)
             THEN ParseFrom(k + 1,
                            Append(acc, [param |-> key,
                                         val |-> Float(t[m.line].tok)]), t)
           ELSE ParseFrom(k + 1, acc, t)

parse_cbc_values(t) == ParseFrom(1, <<>>, t)

---------------------------------------------------------------------------
(* Inputs *)

\* st.number_input("Sample Age ...", min_value=0.0): at, just below and
\* just above the 72 hour limit
AgeHours == {0, 72, 73}

\* the options of st.selectbox("Storage Temperature", ...)
StorageTemps == {"Room Temperature", "Refrigerated", "Frozen", "Heated"}

\* values tried for a parameter: around both ends of its range, and for
\* Hemoglobin and Hematocrit the values that put the Rule of Threes
\* differences exactly on their thresholds (3*4.5 - 12.5 = 1, 3*13.5 - 43.5 = -3)
Probe(p) ==
  { v \in { NORMAL_RANGES[p].min - 1, NORMAL_RANGES[p].min,
            NORMAL_RANGES[p].max, NORMAL_RANGES[p].max + 1 } : v >= 0 }
  \cup (IF p = "Hemoglobin" THEN {125} ELSE {})
  \cup (IF p = "Hematocrit" THEN {435} ELSE {})

\* the words that start a line of an uploaded text
TextLabels == {"RBC", "Hb", "Hemoglobin", "PLT", "Platelets", "Note"}

\* what follows the word and its separators: nothing, or a run of digits
\* and periods
TextTokens ==
  { <<>>, <<"5", ".", "2">>, <<"1", "3">>, <<"1", ".", "2", ".", "3">>, <<".">> }

Lines == [label : TextLabels, tok : TextTokens]

Texts == UNION { [1..n -> Lines] : n \in 0..MaxLines }

\* the dict the manual form builds: every key of NORMAL_RANGES, in table
\* order, 0.0 where the user left the field alone; at most k fields from
\* the i-th on are changed
RECURSIVE FormsFrom(_, _)
FormsFrom(i, k) ==
  IF i > Len(Params) THEN {<<>>}
  ELSE { <<[param |-> Params[i], val |-> 0]>> \o d : d \in FormsFrom(i + 1, k) }
       \cup (IF k > 0
               THEN { <<[param |-> Params[i], val |-> v]>> \o d :
                        v \in Probe(Params[i]) \ {0}, d \in FormsFrom(i + 1, k - 1) }
               ELSE {})

\* dicts with at most k entries, keys from the i-th parameter on, in table
\* order
RECURSIVE DictsFrom(_, _)
DictsFrom(i, k) ==
  IF i > Len(Params) \/ k = 0 THEN {<<>>}
  ELSE DictsFrom(i + 1, k)
       \cup { <<[param |-> Params[i], val |-> v]>> \o d :
                v \in Probe(Params[i]), d \in DictsFrom(i + 1, k - 1) }

\* the same entries inserted in the opposite order
Reverse(d) == [i \in 1..Len(d) |-> d[Len(d) + 1 - i]]

\* a dict over RBC, Hemoglobin, Hematocrit, MCV, Lymphocytes and MPV, in table
\* order; -1 stands for a key that is left out
CoreDict(rbc, hb, hct, mcv, lym, mpv) ==
  SelectSeq(<< [param |-> "RBC", val |-> rbc],
               [param |-> "Hemoglobin", val |-> hb],
               [param |-> "Hematocrit", val |-> hct],
               [param |-> "MCV", val |-> mcv],
               [param |-> "Lymphocytes", val |-> lym],
               [param |-> "MPV", val |-> mpv] >>,
            LAMBDA e : e.val # -1)

---------------------------------------------------------------------------
(* The script *)

Init ==
  /\ pc = "start"
  /\ option = ""
  /\ sample_age_hours = 0
  /\ storage_temp = "Room Temperature"
  /\ text = <<>>
  /\ values = <<>>
  /\ quality_issues = <<>>
  /\ analysis = <<>>
  /\ err = "none"

\* st.radio, st.number_input and st.selectbox at the top of the script
ReadInputs ==
  /\ pc = "start"
  /\ \E o \in {"Upload File", "Manual Input"}, a \in AgeHours, s \in StorageTemps :
       /\ option' = o
       /\ sample_age_hours' = a
       /\ storage_temp' = s
  /\ pc' = "input"
  /\ UNCHANGED <<text, values, quality_issues, analysis, err>>

\* the "Upload File" branch: no file or an empty text leaves values empty;
\* otherwise values = parse_cbc_values(text), unless the call raises
UploadFile ==
  /\ pc = "input"
  /\ option = "Upload File"
  /\ \E t \in Texts :
       /\ text' = t
       /\ IF t = <<>>
            THEN /\ values' = <<>>
                 /\ err' = err
                 /\ pc' = "done"
            ELSE LET r == parse_cbc_values(t)
                 IN  IF r.err # "none"
                       THEN /\ values' = values
                            /\ err' = r.err
                            /\ pc' = "raised"
                       ELSE /\ values' = r.values
                            /\ err' = err
                            /\ pc' = IF r.values = <<>> THEN "done" ELSE "assess"
  /\ UNCHANGED <<option, sample_age_hours, storage_temp, quality_issues, analysis>>

\* the "Manual Input" branch: one number_input per key of NORMAL_RANGES
ManualInput ==
  /\ pc = "input"
  /\ option = "Manual Input"
  /\ \E d \in FormsFrom(1, MaxEdited) : values' = d
  /\ pc' = "assess"
  /\ UNCHANGED <<option, sample_age_hours, storage_temp, text, quality_issues,
                 analysis, err>>

\* quality_issues = assess_sample_quality(values, sample_age_hours, storage_temp)
AssessSampleQuality ==
  /\ pc = "assess"
  /\ quality_issues' = assess_sample_quality(values, sample_age_hours, storage_temp)
  /\ pc' = "analyze"
  /\ UNCHANGED <<option, sample_age_hours, storage_temp, text, values, analysis, err>>

\* analysis = analyze_values(values)
AnalyzeValues ==
  /\ pc = "analyze"
  /\ analysis' = analyze_values(values)
  /\ pc' = "done"
  /\ UNCHANGED <<option, sample_age_hours, storage_temp, text, values,
                 quality_issues, err>>

Next ==
  \/ ReadInputs
  \/ UploadFile
  \/ ManualInput
  \/ AssessSampleQuality
  \/ AnalyzeValues

Spec == Init /\ [][Next]_vars

---------------------------------------------------------------------------
(* The two functions called directly, on any dict *)

\* the arguments: either a dict of at most MaxPresent entries over all the
\* parameters, inserted in table order or in the opposite order, or a dict
\* over the parameters the composite rules and the quality checks read,
\* with every sample age and storage temperature
InitFn ==
  /\ pc = "assess"
  /\ option = ""
  /\ text = <<>>
  /\ quality_issues = <<>>
  /\ analysis = <<>>
  /\ err = "none"
  /\ \/ /\ \E d \in DictsFrom(1, MaxPresent) : values \in {d, Reverse(d)}
        /\ sample_age_hours = 0
        /\ storage_temp = "Room Temperature"
     \/ /\ \E rbc \in {-1, 44, 45, 60}, hb \in {-1, 125, 135, 176},
             hct \in {-1, 400, 410, 435}, mcv \in {-1, 790, 800, 1000, 1010},
             lym \in {-1, 9, 10}, mpv \in {-1, 104, 105} :
             values = CoreDict(rbc, hb, hct, mcv, lym, mpv)
        /\ sample_age_hours \in AgeHours
        /\ storage_temp \in StorageTemps

NextFn ==
  \/ AssessSampleQuality
  \/ AnalyzeValues

SpecFn == InitFn /\ [][NextFn]_vars

---------------------------------------------------------------------------
(* Properties *)

\* C1: analyze_values returns exactly one per-parameter finding for every
\* parameter present in values, none for an absent one, and the finding's
\* status is Low iff v < min, High iff v > max, Normal otherwise.
C1_PerParameterStatus ==
  pc = "done" =>
    \A p \in ParamSet :
      LET F == { i \in DOMAIN analysis :
                   analysis[i].Parameter = NORMAL_RANGES[p].desc }
      IN  IF Has(values, p)
            THEN /\ Cardinality(F) = 1
                 /\ \A i \in F :
                      LET v  == Get(values, p)
                          st == analysis[i].Status
                      IN  /\ st \in {"Low", "High", "Normal"}
                          /\ st = "Low" <=> v < NORMAL_RANGES[p].min
                          /\ st = "High" <=> v > NORMAL_RANGES[p].max
            ELSE F = {}

\* two parameters analysed, one exactly on its maximum and Normal, the
\* other Low
C1_Witness ==
  /\ pc = "done"
  /\ Len(values) = 2
  /\ \E i \in DOMAIN values :
       /\ values[i].val = NORMAL_RANGES[values[i].param].max
       /\ \E k \in DOMAIN analysis :
            /\ analysis[k].Parameter = NORMAL_RANGES[values[i].param].desc
            /\ analysis[k].Status = "Normal"
  /\ \E k \in DOMAIN analysis : analysis[k].Status = "Low"

\* C4: a Rule of Threes finding (status Abnormal, at most one) is returned
\* iff RBC, Hemoglobin and Hematocrit are all present and
\* |3*RBC - Hb| >= 1 or |3*Hb - HCT| >= 3.
C4_RuleOfThrees ==
  pc = "done" =>
    LET R == { i \in DOMAIN analysis : analysis[i].Parameter = "Rule of Threes" }
        all3 == Has(values, "RBC") /\ Has(values, "Hemoglobin")
                  /\ Has(values, "Hematocrit")
    IN  /\ Cardinality(R) <= 1
        /\ \A i \in R : analysis[i].Status = "Abnormal"
        /\ R # {} <=>
             /\ all3
             /\ LET d1 == 3 * Get(values, "RBC") - Get(values, "Hemoglobin")
                    d2 == 3 * Get(values, "Hemoglobin") - Get(values, "Hematocrit")
                IN  d1 >= 10 \/ d1 <= -10 \/ d2 >= 30 \/ d2 <= -30

\* the finding is returned on the strength of the Hematocrit difference
\* alone, which is exactly on its threshold
C4_Witness ==
  /\ pc = "done"
  /\ Has(values, "RBC") /\ Has(values, "Hemoglobin") /\ Has(values, "Hematocrit")
  /\ 3 * Get(values, "RBC") = Get(values, "Hemoglobin")
  /\ 3 * Get(values, "Hemoglobin") - Get(values, "Hematocrit") = -30
  /\ \E i \in DOMAIN analysis : analysis[i].Parameter = "Rule of Threes"

\* C5: an Anemia Evaluation finding (status Abnormal) is returned iff
\* Hemoglobin is present and below 13.5; its suggestion names Microcytic for
\* MCV < 80, Macrocytic for MCV > 100, Normocytic for 80 <= MCV <= 100 and
\* no class when MCV is absent, whatever else values holds.
C5_AnemiaEvaluation ==
  pc = "done" =>
    LET A == { i \in DOMAIN analysis : analysis[i].Parameter = "Anemia Evaluation" }
        class == IF ~ Has(values, "MCV") THEN ""
                 ELSE IF Get(values, "MCV") < 800
                   THEN "Microcytic: Possible iron deficiency or thalassemia."
                 ELSE IF Get(values, "MCV") > 1000
                   THEN "Macrocytic: Possible B12/folate deficiency."
                 ELSE "Normocytic: Possible chronic disease or hemolysis."
    IN  /\ Cardinality(A) <= 1
        /\ A # {} <=> (Has(values, "Hemoglobin") /\ Get(values, "Hemoglobin") < 135)
        /\ \A i \in A :
             /\ analysis[i].Status = "Abnormal"
             /\ analysis[i].Suggestion =
                  << "Low Hb indicates anemia. ", class,
                     " Use reticulocyte count to assess production. Peripheral smear for morphology." >>

\* anemia found with MCV exactly 80 and a third parameter present
C5_Witness ==
  /\ pc = "done"
  /\ Has(values, "MCV") /\ Get(values, "MCV") = 800
  /\ Has(values, "Lymphocytes")
  /\ \E i \in DOMAIN analysis :
       /\ analysis[i].Parameter = "Anemia Evaluation"
       /\ analysis[i].Suggestion[2] = "Normocytic: Possible chronic disease or hemolysis."

\* C6: assess_sample_quality returns exactly the issues whose predicate
\* holds, each once, in the order age, Frozen, Heated, MCV, MPV, hemolysis.
C6_QualityIssues ==
  pc \in {"analyze", "done"} =>
    LET msgs == << "Sample >72 hours old: May show spurious elevated MCV and MPV due to cell swelling.",
                   "Freezing causes cell lysis, leading to inaccurate counts.",
                   "Heat exposure causes RBC fragmentation, mimicking burn victim samples.",
                   "Elevated MCV may indicate old sample or macrocytosis.",
                   "Elevated MPV suggests prolonged EDTA exposure.",
                   "Possible hemolysis: Low Hb and RBC due to shearing during collection." >>
        holds == << sample_age_hours > 72,
                    storage_temp = "Frozen",
                    storage_temp = "Heated",
                    Has(values, "MCV") /\ Get(values, "MCV") > NORMAL_RANGES["MCV"].max,
                    Has(values, "MPV") /\ Get(values, "MPV") > NORMAL_RANGES["MPV"].max,
                    /\ Has(values, "Hemoglobin") /\ Has(values, "RBC")
                    /\ Get(values, "Hemoglobin") < NORMAL_RANGES["Hemoglobin"].min
                    /\ Get(values, "RBC") < NORMAL_RANGES["RBC"].min >>
        at(k) == { i \in DOMAIN quality_issues : quality_issues[i] = msgs[k] }
    IN  /\ \A k \in 1..6 : Cardinality(at(k)) = (IF holds[k] THEN 1 ELSE 0)
        /\ \A i \in DOMAIN quality_issues : \E k \in 1..6 : quality_issues[i] = msgs[k]
        /\ \A j, k \in 1..6 : \A a \in at(j), b \in at(k) : j < k => a < b

\* a frozen sample exactly 72 hours old with four issues
C6_Witness ==
  /\ pc = "done"
  /\ sample_age_hours = 72
  /\ storage_temp = "Frozen"
  /\ Len(quality_issues) = 4
  /\ quality_issues[1] = "Freezing causes cell lysis, leading to inaccurate counts."

\* C10: an Anemia Evaluation finding comes after a Low Hemoglobin finding
\* and a Possible PID finding after a Low Lymphocytes finding, each Low
\* finding brings its composite finding, and when every per-parameter
\* finding is Normal the only composite finding possible is Rule of Threes.
C10_CompositeBacked ==
  pc = "done" =>
    LET descs == { NORMAL_RANGES[p].desc : p \in ParamSet }
        low(p) == { i \in DOMAIN analysis :
                      /\ analysis[i].Parameter = NORMAL_RANGES[p].desc
                      /\ analysis[i].Status = "Low" }
        rule(n) == { i \in DOMAIN analysis : analysis[i].Parameter = n }
    IN  /\ \A i \in rule("Anemia Evaluation") : \E j \in low("Hemoglobin") : j < i
        /\ \A i \in rule("Possible PID") : \E j \in low("Lymphocytes") : j < i
        /\ low("Hemoglobin") # {} => rule("Anemia Evaluation") # {}
        /\ low("Lymphocytes") # {} => rule("Possible PID") # {}
        /\ (\A i \in DOMAIN analysis :
              analysis[i].Parameter \in descs => analysis[i].Status = "Normal")
           => \A i \in DOMAIN analysis :
                analysis[i].Parameter \in descs \cup {"Rule of Threes"}

\* both composite findings returned, each after its Low finding
C10_Witness ==
  /\ pc = "done"
  /\ \E i, j \in DOMAIN analysis :
       /\ analysis[i].Parameter = "Anemia Evaluation"
       /\ analysis[j].Parameter = "Possible PID"
  /\ \E i \in DOMAIN analysis :
       analysis[i].Parameter = "Hemoglobin (Hb)" /\ analysis[i].Status = "Low"

\* C2: after parse_cbc_values, a parameter whose synonym is followed in the
\* text by a numeric token is mapped to the number of the first such place,
\* a parameter with no such place is absent, no parameter is stored twice
\* (so "RBC: 5.2" gives {RBC: 5.2} and a text without tokens gives {}).
C2_SynonymsParsed ==
  (option = "Upload File" /\ pc \notin {"start", "input"}) =>
    /\ \A i, j \in DOMAIN values : values[i].param = values[j].param => i = j
    /\ \A p \in ParamSet :
         LET syn == { patterns[p][a].word : a \in DOMAIN patterns[p] }
             M   == { i \in DOMAIN text :
                        text[i].label \in syn /\ text[i].tok # <<>> }
         IN  IF M = {} THEN ~ Has(values, p)
             ELSE LET first == CHOOSE i \in M : \A j \in M : i <= j
                  IN  FloatOk(text[first].tok) =>
                        /\ Has(values, p)
                        /\ Get(values, p) = Float(text[first].tok)

\* C3: no call of the pipeline raises, and a parameter whose captured token
\* does not parse as a number is simply absent from the result.
C3_PipelineTotal ==
  /\ err = "none"
  /\ pc # "raised"
  /\ (option = "Upload File" /\ pc \notin {"start", "input"}) =>
       \A p \in ParamSet :
         LET m == Search(patterns[p], text)
         IN  (m.line # 0 /\ ~ FloatOk(text[m.line].tok)) => ~ Has(values, p)

\* C7: in the list analyze_values returns, the per-parameter findings come
\* first, in the order of NORMAL_RANGES, and the composite findings follow
\* in the order Rule of Threes, RDW, Anemia, Lymphopenia, Smear
\* Recommendation, whatever the insertion order of values.
C7_FindingsOrder ==
  pc = "done" =>
    LET composite == << "Rule of Threes", "RDW Interpretation", "Anemia Evaluation",
                        "Possible PID", "Smear Recommendation" >>
        rank(f) == IF \E k \in DOMAIN Params : NORMAL_RANGES[Params[k]].desc = f.Parameter
                     THEN CHOOSE k \in DOMAIN Params :
                            NORMAL_RANGES[Params[k]].desc = f.Parameter
                   ELSE IF \E k \in DOMAIN composite : composite[k] = f.Parameter
                     THEN Len(Params)
                            + (CHOOSE k \in DOMAIN composite : composite[k] = f.Parameter)
                   ELSE 0
    IN  \A i, j \in DOMAIN analysis :
          i < j => (rank(analysis[i]) # 0 /\ rank(analysis[i]) < rank(analysis[j]))

\* C8: exactly one ActionNeeded finding, the last of the list, is returned
\* when a smear trigger fired (Low or High on RBC, Hemoglobin, Hematocrit,
\* Platelets, WBC or Neutrophils, or one of the composite rules), and none
\* when no trigger fired.
C8_SmearRecommendation ==
  pc = "done" =>
    LET off(p) == /\ Has(values, p)
                  /\ \/ Get(values, p) < NORMAL_RANGES[p].min
                     \/ Get(values, p) > NORMAL_RANGES[p].max
        trigger == \/ \E p \in {"RBC", "Hemoglobin", "Hematocrit", "Platelets",
                                "WBC", "Neutrophils"} : off(p)
                   \/ \E i \in DOMAIN analysis : analysis[i].Parameter = "Rule of Threes"
                   \/ (Has(values, "RDW") /\ Get(values, "RDW") > NORMAL_RANGES["RDW"].max)
                   \/ (Has(values, "Hemoglobin")
                         /\ Get(values, "Hemoglobin") < NORMAL_RANGES["Hemoglobin"].min)
                   \/ (Has(values, "Lymphocytes")
                         /\ Get(values, "Lymphocytes") < NORMAL_RANGES["Lymphocytes"].min)
        S == { i \in DOMAIN analysis : analysis[i].Status = "ActionNeeded" }
    IN  IF trigger THEN S = {Len(analysis)} ELSE S = {}

\* C9: when RDW is present and above 14.5 the list holds the per-parameter
\* RDW finding and one finding with status Elevated; otherwise it holds no
\* Elevated finding.
C9_RDWInterpretation ==
  pc = "done" =>
    LET E == { i \in DOMAIN analysis : analysis[i].Status = "Elevated" }
    IN  IF Has(values, "RDW") /\ Get(values, "RDW") > 145
          THEN /\ Cardinality(E) = 1
               /\ \E i \in DOMAIN analysis :
                    analysis[i].Parameter = "Red Cell Distribution Width"
          ELSE E = {}

====
